---- MODULE Spec2Model ----
(***************************************************************************)
(* Model of the app-generation driver of g4f.live (src/apps/create.py):    *)
(* clean_filename, create_app (service call, save, retry with backoff) and *)
(* main (mkdir, sequential loop over the items, pacing sleep).  The other   *)
(* two scripts of the repository and the pure function clean_filename have *)
(* their own variables and their own specifications further down.          *)
(*                                                                         *)
(* Strings that the code inspects character by character (labels, file     *)
(* names) are sequences of one-character strings.                          *)
(***************************************************************************)
EXTENDS Integers, Sequences, FiniteSets, Bags, TLC

(***************************************************************************)
(* Bounds of the model.                                                    *)
(***************************************************************************)
MaxApps == 2          \* longest list of items given to main
MaxRetries == 2       \* largest configured MAX_RETRIES
MaxLabelLen == 3      \* longest free part of a label given to clean_filename alone
MaxFiles == 3         \* most entries in the directory of rename_videos
MaxDirs == 2          \* most subdirectories in the tree given to generate_sitemap

(***************************************************************************)
(* Program constants.                                                      *)
(***************************************************************************)
REQUEST_DELAY == 5    \* create.py:21
FilenameCap == 50     \* create.py:28, the [:50] slice
BackoffBase == 2      \* create.py:83, the base of 2 ** attempt
FirstAttempt == 1     \* create.py:54, attempt: int = 1

VARIABLES
    apps,          \* apps_to_generate: the labels handed to main
    MAX_RETRIES,   \* the configured retry budget (create.py:22)
    dirExists,     \* OUTPUT_DIR exists
    canCreate,     \* the parent of OUTPUT_DIR allows creating it
    writable,      \* files can be written inside OUTPUT_DIR
    files,         \* OUTPUT_DIR: file name -> content (the run and the item that wrote it)
    pc,            \* position of the single coroutine
    i,             \* main's loop index (enumerate(..., 1))
    attempt,       \* create_app's attempt parameter
    inflight,      \* service calls issued and not yet answered
    results,       \* the value of `success` main got for each finished item
    raised,        \* exception that left main, "none" while none did
    outcomes,      \* history: per call of the current item, "ok" or "fail" as the service answered
    allOk,         \* history: every service call so far returned a usable response
    allFailed,     \* history: every service call so far raised or returned no choices
    saveErrors,    \* history: number of save() calls that raised
    trace,         \* history: calls, sleeps and final statuses in the order they happened
    lastOutcome,   \* history: how the last answered service call came back
    second,        \* the script is running for the second time on the same directory
    firstRun       \* history: what the first run left behind, once it is over

VARIABLES
    cfName,        \* clean_filename: the argument
    cfResult,      \* clean_filename: the returned value
    cfPc           \* "idle", "called" or "returned"

VARIABLES
    rdir,          \* rename.py: the directory, entry name -> content
    rdir0,         \* history: the directory before rename_videos ran
    posix,         \* os.rename replaces an existing target (POSIX) or raises (Windows)
    listing,       \* sorted(files)
    idx,           \* position of the for loop in the listing
    counter,       \* counter
    rpc,           \* "idle", "start", "loop", "done" or "error"
    renames        \* history: the os.rename calls made, in order

VARIABLES
    directory,     \* sitemap.py: the root directory, as the names of its path
    base_url,      \* base_url
    tree,          \* the tree under directory: relative directory -> file names
    walked,        \* the directories os.walk has yielded
    urlset,        \* the <url> elements appended to urlset, as a bag
    spc,           \* "idle", "walk" or "done"
    sitemap_xml    \* the content written to sitemap.xml

driverVars == <<apps, MAX_RETRIES, dirExists, canCreate, writable, files, pc, i, attempt,
                inflight, results, raised, outcomes, allOk, allFailed, saveErrors, trace,
                lastOutcome, second, firstRun>>
cleanVars == <<cfName, cfResult, cfPc>>
renameVars == <<rdir, rdir0, posix, listing, idx, counter, rpc, renames>>
sitemapVars == <<directory, base_url, tree, walked, urlset, spc, sitemap_xml>>

\* What a step of the driver leaves alone.
otherVars == <<cleanVars, renameVars, sitemapVars>>

vars == <<driverVars, cleanVars, renameVars, sitemapVars>>

\* The state of a script that is not running.
CleanIdle == cfName = << >> /\ cfResult = << >> /\ cfPc = "idle"
RenameIdle ==
    /\ rdir = << >>
    /\ rdir0 = << >>
    /\ posix = TRUE
    /\ listing = << >>
    /\ idx = 0
    /\ counter = 0
    /\ rpc = "idle"
    /\ renames = << >>
SitemapIdle ==
    /\ directory = << >>
    /\ base_url = << >>
    /\ tree = << >>
    /\ walked = {}
    /\ urlset = EmptyBag
    /\ spc = "idle"
    /\ sitemap_xml = EmptyBag

(***************************************************************************)
(* Characters.                                                             *)
(***************************************************************************)
UpperChars == <<"A","B","C","D","E","F","G","H","I","J","K","L","M",
                "N","O","P","Q","R","S","T","U","V","W","X","Y","Z">>
LowerChars == <<"a","b","c","d","e","f","g","h","i","j","k","l","m",
                "n","o","p","q","r","s","t","u","v","w","x","y","z">>
DigitChars == {"0","1","2","3","4","5","6","7","8","9"}
Whitespace == {" ", "\t", "\n"}

Range(s) == {s[k] : k \in DOMAIN s}

\* The character class [a-zA-Z0-9_\-] of the pattern at create.py:27.
AllowedChars == Range(UpperChars) \cup Range(LowerChars) \cup DigitChars \cup {"_", "-"}
AllowedChar(c) == c \in AllowedChars

\* re.sub(r'[^a-zA-Z0-9_\-]', '', name): every character outside the class is removed.
re_sub(name) == SelectSeq(name, AllowedChar)

\* str.strip(): leading and trailing whitespace removed.
RECURSIVE lstrip(_)
lstrip(s) == IF s # <<>> /\ Head(s) \in Whitespace THEN lstrip(Tail(s)) ELSE s
RECURSIVE rstrip(_)
rstrip(s) ==
    IF s # <<>> /\ s[Len(s)] \in Whitespace THEN rstrip(SubSeq(s, 1, Len(s) - 1)) ELSE s
strip(s) == rstrip(lstrip(s))

\* A clean_filename that forgets .lower().
lower_Missing(s) == s

\* str.lower() on one character, then on a string.
UpperSet == Range(UpperChars)
lower_char(c) ==
    IF c \in UpperSet
    THEN LowerChars[CHOOSE k \in DOMAIN UpperChars : UpperChars[k] = c]
    ELSE c
lower(s) == [k \in DOMAIN s |-> lower_char(s[k])]

\* str.replace(' ', '_')
replace_space(s) == [k \in DOMAIN s |-> IF s[k] = " " THEN "_" ELSE s[k]]

\* s[:50]
truncate(s) == IF Len(s) > FilenameCap THEN SubSeq(s, 1, FilenameCap) ELSE s

\* clean_filename, in the order the code applies the steps: the substitution
\* first, then strip, lower, replace and the slice.
clean_filename(name) == truncate(replace_space(lower(strip(re_sub(name)))))

HtmlSuffix == <<".", "h", "t", "m", "l">>

\* OUTPUT_DIR / f"{clean_filename(app_name)}.html": the name inside OUTPUT_DIR.
Filename(app_name) == clean_filename(app_name) \o HtmlSuffix

(***************************************************************************)
(* Labels the model hands to main.                                         *)
(***************************************************************************)
DigitalClock == <<"D","i","g","i","t","a","l"," ","C","l","o","c","k">>
MarkdownPreviewer ==
    <<"M","a","r","k","d","o","w","n"," ","P","r","e","v","i","e","w","e","r">>
digital_clock_lc == <<"d","i","g","i","t","a","l"," ","c","l","o","c","k">>

Labels == {DigitalClock, MarkdownPreviewer, digital_clock_lc}

RECURSIVE SeqsUpTo(_, _)
SeqsUpTo(S, n) ==
    IF n = 0 THEN {<<>>}
    ELSE LET shorter == SeqsUpTo(S, n - 1)
         IN  shorter \cup {Append(s, x) : s \in {t \in shorter : Len(t) = n - 1}, x \in S}

AppLists == SeqsUpTo(Labels, MaxApps)

\* The file name of every label, computed once.
FilenameOf == [a \in Labels |-> Filename(a)]

(***************************************************************************)
(* History events.  arg is the attempt number of a call, the seconds of a  *)
(* sleep, 1/0 for a final status of success/failure.                       *)
(***************************************************************************)
Event(ev, item, arg) == [ev |-> ev, item |-> item, arg |-> arg]

(***************************************************************************)
(* The pieces of create_app and main that the actions are built from.      *)
(***************************************************************************)

\* What one service call can come back with: a response with choices, a
\* response with no choices, or a raised exception.
ServiceOutcomes == {"ok", "empty", "raise"}

\* A mkdir whose error is swallowed.
mkdir_ok_Ignored == TRUE

\* A mkdir without exist_ok=True: an existing directory is an error.
mkdir_ok_NoExistOk == ~dirExists /\ canCreate

\* OUTPUT_DIR.mkdir(exist_ok=True): succeeds on an existing directory and on
\* one that can be created; raises otherwise.
mkdir_ok == dirExists \/ canCreate

\* A save that writes nothing.
save_Nothing(fs, name, content) == fs

\* A save that leaves an existing file as it is (exclusive creation).
save_KeepExisting(fs, name, content) ==
    IF name \in DOMAIN fs THEN fs
    ELSE [f \in (DOMAIN fs) \cup {name} |-> IF f = name THEN content ELSE fs[f]]

\* message.save(filename, ...): the file is created or overwritten.
save(fs, name, content) ==
    [f \in (DOMAIN fs) \cup {name} |-> IF f = name THEN content ELSE fs[f]]

\* The exception, if any, that the try block of create_app ends with, given
\* the service outcome r: the call raising, the ValueError of the empty
\* check, or save() raising in a directory that cannot be written.
TryError(r) ==
    IF r = "raise" THEN "ServiceError"
    ELSE IF r = "empty" THEN "ValueError"
    ELSE IF ~writable THEN "OSError"
    ELSE "none"

\* Handlers that catch less than Exception.
Catches_ValueErrorOnly(err) == err = "ValueError"
Catches_ServiceErrorsOnly(err) == err \in {"ServiceError", "ValueError"}
Catches_NotValueError(err) == err \in {"ServiceError", "OSError"}

\* except Exception: every one of the errors above is an Exception.
Catches(err) == err \in {"ServiceError", "ValueError", "OSError"}

\* A retry test that is off by one (<  for <=).
ShouldRetry_Strict(a) == a < MAX_RETRIES

\* A retry test that allows one retry too many.
ShouldRetry_OneMore(a) == a <= MAX_RETRIES + 1

\* if attempt <= MAX_RETRIES
ShouldRetry(a) == a <= MAX_RETRIES

\* A backoff that starts from one second (2 ** (attempt - 1)).
BackoffDelay_FromOne(a) == BackoffBase ^ (a - 1)

\* 2 ** attempt
BackoffDelay(a) == BackoffBase ^ a

\* A pacing sleep that uses the backoff formula instead of the fixed delay.
PaceEvent_Backoff(k) == Event("pace", k, BackoffBase ^ k)

\* await asyncio.sleep(REQUEST_DELAY), after item k
PaceEvent(k) == Event("pace", k, REQUEST_DELAY)

\* A loop that starts one item too far.
FirstIndex_Skip == 1 + 1

\* enumerate(apps_to_generate, 1)
FirstIndex == 1

\* The content message.save writes for item k: what this run generated for it.
Artifact(k) == [run |-> IF second THEN "second" ELSE "first", item |-> k]

\* Nothing is known of a first run while it is not over.
NoRun == [files |-> << >>, allOk |-> FALSE]

(***************************************************************************)
(* Init: main has been called with a list of labels; the configuration and *)
(* the state of the output directory are inputs.  A directory that main    *)
(* creates itself is writable; one that cannot be created is not.          *)
(***************************************************************************)
Init ==
    /\ apps \in AppLists
    /\ MAX_RETRIES \in 0..MaxRetries
    /\ dirExists \in BOOLEAN
    /\ canCreate \in BOOLEAN
    /\ writable \in BOOLEAN
    /\ dirExists => canCreate
    /\ (~dirExists) => (writable = canCreate)
    /\ files = << >>
    /\ pc = "main"
    /\ i = 0
    /\ attempt = 0
    /\ inflight = 0
    /\ results = << >>
    /\ raised = "none"
    /\ outcomes = << >>
    /\ allOk = TRUE
    /\ allFailed = TRUE
    /\ saveErrors = 0
    /\ trace = << >>
    /\ lastOutcome = "none"
    /\ second = FALSE
    /\ firstRun = NoRun
    /\ CleanIdle
    /\ RenameIdle
    /\ SitemapIdle

\* main, lines 90-93: create the output directory; an error here leaves main.
main_mkdir ==
    /\ pc = "main"
    /\ IF mkdir_ok
       THEN /\ dirExists' = TRUE
            /\ i' = FirstIndex
            /\ pc' = "for"
            /\ raised' = raised
       ELSE /\ pc' = "aborted"
            /\ raised' = "OSError"
            /\ UNCHANGED <<dirExists, i>>
    /\ UNCHANGED <<apps, MAX_RETRIES, canCreate, writable, files, attempt, inflight,
                   results, outcomes, allOk, allFailed, saveErrors, trace, lastOutcome>>
    /\ UNCHANGED <<second, firstRun>>
    /\ UNCHANGED otherVars

\* main, lines 95-99 and 107: take the next item and call create_app(app) with
\* the default attempt, or leave the loop when the list is exhausted.
main_for ==
    /\ pc = "for"
    /\ IF i <= Len(apps)
       THEN /\ attempt' = FirstAttempt
            /\ outcomes' = << >>
            /\ pc' = "create_app"
       ELSE /\ pc' = "done"
            /\ UNCHANGED <<attempt, outcomes>>
    /\ UNCHANGED <<apps, MAX_RETRIES, dirExists, canCreate, writable, files, i, inflight,
                   results, raised, allOk, allFailed, saveErrors, trace, lastOutcome>>
    /\ UNCHANGED <<second, firstRun>>
    /\ UNCHANGED otherVars

\* create_app, lines 56-68: issue the service call and suspend on it.
create_app_call ==
    /\ pc = "create_app"
    /\ i \in 1..Len(apps)
    /\ inflight' = inflight + 1
    /\ trace' = Append(trace, Event("call", i, attempt))
    /\ pc' = "await"
    /\ UNCHANGED <<apps, MAX_RETRIES, dirExists, canCreate, writable, files, i, attempt,
                   results, raised, outcomes, allOk, allFailed, saveErrors, lastOutcome>>
    /\ UNCHANGED <<second, firstRun>>
    /\ UNCHANGED otherVars

\* create_app, lines 57-86, and main, lines 99-105, up to the next suspension:
\* the call answers with r; the response is checked and saved, or the except
\* clause decides between a backoff sleep and returning False; a returned
\* value goes back to main, which starts the pacing sleep.
create_app_resume(r) ==
    LET err == TryError(r)
        finished(ok) ==
            /\ results' = Append(results, ok)
            /\ trace' = trace \o <<Event("status", i, IF ok THEN 1 ELSE 0), PaceEvent(i)>>
            /\ pc' = "sleep"
            /\ raised' = raised
    IN
    /\ pc = "await"
    /\ inflight' = inflight - 1
    /\ outcomes' = Append(outcomes, IF r = "ok" THEN "ok" ELSE "fail")
    /\ allOk' = (allOk /\ r = "ok")
    /\ allFailed' = (allFailed /\ r # "ok")
    /\ saveErrors' = IF r = "ok" /\ err = "OSError" THEN saveErrors + 1 ELSE saveErrors
    /\ files' = IF err = "none" THEN save(files, FilenameOf[apps[i]], Artifact(i)) ELSE files
    /\ IF err = "none"
       THEN finished(TRUE)
       ELSE IF Catches(err)
       THEN IF ShouldRetry(attempt)
            THEN /\ trace' = Append(trace, Event("backoff", i, BackoffDelay(attempt)))
                 /\ pc' = "backoff"
                 /\ UNCHANGED <<results, raised>>
            ELSE finished(FALSE)
       ELSE /\ pc' = "aborted"
            /\ raised' = err
            /\ UNCHANGED <<results, trace>>
    /\ lastOutcome' = r
    /\ UNCHANGED <<apps, MAX_RETRIES, dirExists, canCreate, writable, i, attempt>>
    /\ UNCHANGED <<second, firstRun>>
    /\ UNCHANGED otherVars

\* create_app, lines 83-84: the backoff sleep ends and create_app calls itself
\* with attempt + 1.
backoff_done ==
    /\ pc = "backoff"
    /\ attempt' = attempt + 1
    /\ pc' = "create_app"
    /\ UNCHANGED <<apps, MAX_RETRIES, dirExists, canCreate, writable, files, i, inflight,
                   results, raised, outcomes, allOk, allFailed, saveErrors, trace, lastOutcome>>
    /\ UNCHANGED <<second, firstRun>>
    /\ UNCHANGED otherVars

\* main, line 105: the pacing sleep ends and the loop goes to the next item.
main_sleep_done ==
    /\ pc = "sleep"
    /\ i' = i + 1
    /\ pc' = "for"
    /\ UNCHANGED <<apps, MAX_RETRIES, dirExists, canCreate, writable, files, attempt,
                   inflight, results, raised, outcomes, allOk, allFailed, saveErrors, trace, lastOutcome>>
    /\ UNCHANGED <<second, firstRun>>
    /\ UNCHANGED otherVars

\* __main__, lines 109-115: the script is started once more with the same
\* labels; the output directory is as the first run left it, and the
\* histories start again.
run_again ==
    /\ pc = "done"
    /\ ~second
    /\ second' = TRUE
    /\ firstRun' = [files |-> files, allOk |-> allOk]
    /\ pc' = "main"
    /\ i' = 0
    /\ attempt' = 0
    /\ results' = << >>
    /\ outcomes' = << >>
    /\ allOk' = TRUE
    /\ allFailed' = TRUE
    /\ saveErrors' = 0
    /\ trace' = << >>
    /\ lastOutcome' = "none"
    /\ UNCHANGED <<apps, MAX_RETRIES, dirExists, canCreate, writable, files, inflight, raised>>
    /\ UNCHANGED otherVars

Next ==
    \/ main_mkdir
    \/ main_for
    \/ create_app_call
    \/ \E r \in ServiceOutcomes : create_app_resume(r)
    \/ backoff_done
    \/ main_sleep_done
    \/ run_again

Spec == Init /\ [][Next]_vars

\* asyncio.run drives the one coroutine until it returns: a step that can be
\* taken (a sleep ending, a call answering) is eventually taken.
FairSpec == Spec /\ WF_vars(Next)

(***************************************************************************)
(* Reading the history.                                                    *)
(***************************************************************************)
Positions(ev, k) == {p \in DOMAIN trace : trace[p].ev = ev /\ trace[p].item = k}
Count(ev, k) == Cardinality(Positions(ev, k))
CallsBefore(p, k) == Cardinality({q \in Positions("call", k) : q < p})
ItemEvents(k) == SelectSeq(trace, LAMBDA e : e.item = k)
ItemKinds(k) == [p \in DOMAIN ItemEvents(k) |-> ItemEvents(k)[p].ev]
N == Len(apps)
Finished == pc = "done"
MkdirFailed == pc = "aborted" /\ ~canCreate

(***************************************************************************)
(* C1.  With a service that fails every call and retry budget              *)
(* MAX_RETRIES = R, every item is called exactly R+1 times before it is    *)
(* recorded as failed, and the run reaches its completion point with no    *)
(* item recorded as success and all N as failure.  (The output directory   *)
(* can be created; the opposite case is C8.)                               *)
(***************************************************************************)
C1_FailedItemHadAllCalls ==
    allFailed =>
        \A p \in DOMAIN trace :
            trace[p].ev = "status" =>
                /\ trace[p].arg = 0
                /\ CallsBefore(p, trace[p].item) = MAX_RETRIES + 1
                /\ Count("call", trace[p].item) = MAX_RETRIES + 1

C1_CompletedAllFailed ==
    /\ Finished
    /\ Len(results) = N
    /\ \A k \in 1..N : results[k] = FALSE /\ Count("call", k) = MAX_RETRIES + 1

C1_AlwaysFailingService ==
    /\ []C1_FailedItemHadAllCalls
    /\ <>(~allFailed \/ MkdirFailed \/ C1_CompletedAllFailed)

C1_Witness ==
    /\ C1_CompletedAllFailed
    /\ allFailed
    /\ N = 2
    /\ MAX_RETRIES = 2

(***************************************************************************)
(* C2.  With the labels ["Digital Clock", "Markdown Previewer"], retry     *)
(* budget 0 and a service that always succeeds, the run writes             *)
(* digital_clock.html and markdown_previewer.html (a space in a label      *)
(* becomes an underscore in the file name) and records 2 successes and no  *)
(* failure.                                                                *)
(***************************************************************************)
digital_clock_html ==
    <<"d","i","g","i","t","a","l","_","c","l","o","c","k",".","h","t","m","l">>
markdown_previewer_html ==
    <<"m","a","r","k","d","o","w","n","_","p","r","e","v","i","e","w","e","r",
      ".","h","t","m","l">>

C2_Scenario ==
    /\ Finished
    /\ apps = <<DigitalClock, MarkdownPreviewer>>
    /\ MAX_RETRIES = 0
    /\ allOk
    /\ writable

C2_SpacesBecomeUnderscores ==
    C2_Scenario =>
        /\ DOMAIN files = {digital_clock_html, markdown_previewer_html}
        /\ results = <<TRUE, TRUE>>

(***************************************************************************)
(* C3.  With a service that succeeds on every call (and an output          *)
(* directory that can be written), running main on N items records         *)
(* success for all N and failure for none, and leaves one output file per  *)
(* distinct derived file name: exactly N files when the derived names of   *)
(* the items are pairwise distinct, fewer when two items share a name.     *)
(***************************************************************************)
DerivedNames == {FilenameOf[apps[k]] : k \in 1..N}
NamesDistinct == \A j, k \in 1..N : j # k => FilenameOf[apps[j]] # FilenameOf[apps[k]]
AllRecordedSuccess == Len(results) = N /\ \A k \in 1..N : results[k] = TRUE

C3_AlwaysSucceedingService ==
    (Finished /\ allOk /\ writable) =>
        /\ AllRecordedSuccess
        /\ DOMAIN files = DerivedNames
        /\ Cardinality(DOMAIN files) = Cardinality(DerivedNames)
        /\ NamesDistinct => Cardinality(DOMAIN files) = N

\* The statement as first made: exactly N files for any list of N items;
\* it is tried here on the lists whose labels are pairwise different.
LabelsDistinct == \A j, k \in 1..N : j # k => apps[j] # apps[k]

C3_ExactlyNFiles ==
    (Finished /\ allOk /\ writable /\ LabelsDistinct) =>
        /\ AllRecordedSuccess
        /\ Cardinality(DOMAIN files) = N

C3_Witness ==
    /\ Finished /\ allOk /\ writable
    /\ N = 2
    /\ NamesDistinct
    /\ AllRecordedSuccess
    /\ Cardinality(DOMAIN files) = 2

(***************************************************************************)
(* C4.  With MAX_RETRIES >= 1, an item whose first service call fails and  *)
(* whose second call succeeds is recorded as a success after exactly two   *)
(* calls, with exactly one backoff wait, which lies between the two calls. *)
(* (The output directory can be written.)                                  *)
(***************************************************************************)
ItemFinalised == pc = "sleep"

C4_FailOnceThenSucceed ==
    (ItemFinalised /\ MAX_RETRIES >= 1 /\ writable /\ outcomes # << >> /\ outcomes[1] = "fail") =>
        /\ Len(outcomes) >= 2
        /\ outcomes[2] = "ok" =>
             /\ results[i] = TRUE
             /\ Count("call", i) = 2
             /\ Count("backoff", i) = 1
             /\ ItemKinds(i) = <<"call", "backoff", "call", "status", "pace">>

C4_Witness ==
    /\ ItemFinalised /\ MAX_RETRIES >= 1 /\ writable
    /\ outcomes = <<"fail", "ok">>
    /\ results[i] = TRUE
    /\ i = 2

(***************************************************************************)
(* C5.  Whatever the service answers call by call (usable responses,       *)
(* exceptions, empty responses), no item's failure aborts the batch: once  *)
(* the output directory is there, the run reaches its completion point,    *)
(* and by then every item has been called at least once and has received   *)
(* exactly one final status.                                               *)
(***************************************************************************)
EveryItemSettled ==
    /\ Len(results) = N
    /\ \A k \in 1..N :
          /\ Count("call", k) >= 1
          /\ Count("status", k) = 1
          /\ \A p \in Positions("status", k) : (trace[p].arg = 1) = results[k]

C5_BatchCompletes ==
    /\ [](raised # "none" => MkdirFailed)
    /\ [](Finished => EveryItemSettled)
    /\ (pc = "for") ~> Finished

C5_Witness ==
    /\ Finished
    /\ N = 2
    /\ results = <<FALSE, TRUE>>
    /\ MAX_RETRIES = 1
    /\ Count("call", 1) = 2
    /\ EveryItemSettled

(***************************************************************************)
(* C6.  Items are processed one at a time in input order: at most one      *)
(* service call is in flight, and no call for an item is issued before     *)
(* every earlier item of the list has received its final status.           *)
(***************************************************************************)
C6_OneAtATimeInOrder ==
    /\ inflight \in {0, 1}
    /\ \A p \in DOMAIN trace :
          trace[p].ev = "call" =>
              \A j \in 1..(trace[p].item - 1) :
                  \E q \in Positions("status", j) : q < p
    /\ \A p \in DOMAIN trace :
          trace[p].ev = "status" =>
              \A q \in Positions("call", trace[p].item) : q < p
    /\ (inflight = 1) => (pc = "await" /\ trace[Len(trace)] = Event("call", i, attempt))

C6_Witness ==
    /\ pc = "await"
    /\ inflight = 1
    /\ i = 2
    /\ attempt = 2
    /\ Count("status", 1) = 1
    /\ results = <<FALSE>>

(***************************************************************************)
(* C7.  When the output directory cannot be written, so that writing an    *)
(* item's artifact fails, the run does not abort: the failed write is      *)
(* handled like a service failure, so the item is called again (after a    *)
(* backoff) while retry budget remains and is then recorded as a per-item  *)
(* failure, and the items after it are still attempted.                    *)
(***************************************************************************)
C7_WriteFailureIsPerItem ==
    (saveErrors > 0) =>
        /\ pc # "aborted"
        /\ raised = "none"
        /\ files = << >>
        /\ (pc = "backoff") => attempt <= MAX_RETRIES
        /\ \A k \in 1..Len(results) :
              results[k] = FALSE /\ Count("call", k) = MAX_RETRIES + 1
        /\ Finished => Len(results) = N

\* The statement as first made: a failed write aborts the run at once, with
\* no retry, no per-item failure and no further item.
C7_WriteFailureAborts ==
    (saveErrors > 0) =>
        /\ pc = "aborted"
        /\ raised # "none"
        /\ saveErrors = 1
        /\ results = << >>

C7_Witness ==
    /\ Finished
    /\ ~writable
    /\ N = 2
    /\ MAX_RETRIES = 1
    /\ saveErrors = 4
    /\ results = <<FALSE, FALSE>>

(***************************************************************************)
(* C8.  If the output directory cannot be created at the start of main,    *)
(* the run aborts with that error leaving main, no service call is issued  *)
(* and no file is written.                                                 *)
(***************************************************************************)
C8_MkdirFailureAborts ==
    (~canCreate /\ pc # "main") =>
        /\ pc = "aborted"
        /\ raised = "OSError"
        /\ trace = << >>
        /\ inflight = 0
        /\ files = << >>
        /\ results = << >>

C8_Witness ==
    /\ pc = "aborted"
    /\ ~canCreate
    /\ ~dirExists
    /\ raised = "OSError"
    /\ N = 2

(***************************************************************************)
(* C9.  The backoff wait after the k-th failed attempt of an item (k >= 1) *)
(* is 2^k seconds, so each backoff wait of an item is twice the one before *)
(* it, and a backoff wait occurs only when retry budget remains.           *)
(***************************************************************************)
C9_BackoffDoubles ==
    \A p \in DOMAIN trace :
        trace[p].ev = "backoff" =>
            LET k == CallsBefore(p, trace[p].item)
                earlier == {q \in Positions("backoff", trace[p].item) : q < p}
            IN  /\ k >= 1
                /\ k <= MAX_RETRIES
                /\ trace[p - 1] = Event("call", trace[p].item, k)
                /\ trace[p].arg = 2 ^ k
                /\ Cardinality(earlier) = k - 1
                /\ \A q \in earlier :
                      (\A r \in earlier : r <= q) => trace[p].arg = 2 * trace[q].arg

C9_Witness ==
    /\ pc = "backoff"
    /\ attempt = 2
    /\ trace[Len(trace)] = Event("backoff", i, 4)
    /\ Count("backoff", i) = 2

(***************************************************************************)
(* C10.  After each item reaches its final status, success or failure      *)
(* alike, exactly one pacing wait of REQUEST_DELAY takes place before the  *)
(* first service call of the next item, and no pacing wait takes place     *)
(* between the calls of one item.                                          *)
(***************************************************************************)
C10_PacingAfterEachItem ==
    /\ \A p \in DOMAIN trace :
          trace[p].ev = "status" =>
              /\ p + 1 \in DOMAIN trace
              /\ trace[p + 1] = Event("pace", trace[p].item, REQUEST_DELAY)
    /\ \A p \in DOMAIN trace :
          trace[p].ev = "pace" =>
              /\ p > 1
              /\ trace[p - 1].ev = "status"
              /\ trace[p - 1].item = trace[p].item
    /\ \A p \in DOMAIN trace :
          (trace[p].ev = "call" /\ trace[p].item > 1 /\ CallsBefore(p, trace[p].item) = 0) =>
              /\ trace[p - 1] = Event("pace", trace[p].item - 1, REQUEST_DELAY)
              /\ Count("pace", trace[p].item - 1) = 1
    /\ \A p \in DOMAIN trace :
          trace[p].ev = "call" =>
              \A q \in Positions("pace", trace[p].item) : q > p
    /\ (pc = "sleep") =>
          /\ inflight = 0
          /\ trace[Len(trace)] = Event("pace", i, REQUEST_DELAY)

C10_Witness ==
    /\ Finished
    /\ results = <<FALSE, TRUE>>
    /\ MAX_RETRIES = 1
    /\ ItemKinds(1) = <<"call", "backoff", "call", "status", "pace">>
    /\ ItemKinds(2) = <<"call", "status", "pace">>

(***************************************************************************)
(* clean_filename on its own: the argument is drawn from the strings over  *)
(* a small alphabet (letters of both cases, a digit, the two allowed       *)
(* punctuation marks, a space, a tab and a character outside the class),   *)
(* alone or next to a run of FilenameCap letters, so that the slice cuts.  *)
(***************************************************************************)
DriverIdle ==
    /\ apps = << >>
    /\ MAX_RETRIES = 0
    /\ dirExists = FALSE
    /\ canCreate = FALSE
    /\ writable = FALSE
    /\ files = << >>
    /\ pc = "idle"
    /\ i = 0
    /\ attempt = 0
    /\ inflight = 0
    /\ results = << >>
    /\ raised = "none"
    /\ outcomes = << >>
    /\ allOk = TRUE
    /\ allFailed = TRUE
    /\ saveErrors = 0
    /\ trace = << >>
    /\ lastOutcome = "none"
    /\ second = FALSE
    /\ firstRun = NoRun

CleanAlphabet == {"A", "z", "7", "_", "-", " ", "\t", "!"}
LongRun == [k \in 1..FilenameCap |-> "Q"]
CleanInputs ==
    LET free == SeqsUpTo(CleanAlphabet, MaxLabelLen)
    IN  free \cup {LongRun \o t : t \in free} \cup {t \o LongRun : t \in free}

InitClean ==
    /\ DriverIdle
    /\ RenameIdle
    /\ SitemapIdle
    /\ cfName \in CleanInputs
    /\ cfResult = << >>
    /\ cfPc = "called"

\* clean_filename, lines 25-28: the call returns.
clean_filename_return ==
    /\ cfPc = "called"
    /\ cfResult' = clean_filename(cfName)
    /\ cfPc' = "returned"
    /\ UNCHANGED <<cfName, driverVars, renameVars, sitemapVars>>

NextClean == clean_filename_return

SpecClean == InitClean /\ [][NextClean]_vars

(***************************************************************************)
(* C11.  For every label, clean_filename(label) consists only of           *)
(* characters from a-z, 0-9, '_' and '-', holds no uppercase letter and    *)
(* is at most 50 characters long.                                          *)
(***************************************************************************)
C11_FilenameCharsAndLength ==
    (cfPc = "returned") =>
        /\ \A k \in DOMAIN cfResult :
              /\ cfResult[k] \in Range(LowerChars) \cup DigitChars \cup {"_", "-"}
              /\ cfResult[k] \notin Range(UpperChars)
        /\ Len(cfResult) <= 50

C11_Witness ==
    /\ cfPc = "returned"
    /\ Len(cfName) > 50
    /\ Len(cfResult) = 50
    /\ \E k \in DOMAIN cfName : cfName[k] = "!"
    /\ \E k \in DOMAIN cfName : cfName[k] = " "
    /\ cfName[1] = "A"
    /\ cfResult[1] = "a"

(***************************************************************************)
(* C12.  A response with no choices takes the same path as a raised        *)
(* service error: the attempt writes no file, the item is called again     *)
(* (after the backoff) while retry budget remains, and it is recorded as   *)
(* a failure once the budget is exhausted.                                 *)
(***************************************************************************)
FailurePath ==
    /\ files' = files
    /\ raised' = raised
    /\ inflight' = 0
    /\ IF attempt <= MAX_RETRIES
       THEN /\ pc' = "backoff"
            /\ results' = results
            /\ trace' = Append(trace, Event("backoff", i, 2 ^ attempt))
       ELSE /\ pc' = "sleep"
            /\ results' = Append(results, FALSE)
            /\ trace' = trace \o <<Event("status", i, 0), Event("pace", i, REQUEST_DELAY)>>

C12_EmptyResponseIsLikeError ==
    [][(pc = "await" /\ pc' # "await" /\ lastOutcome' \in {"empty", "raise"}) => FailurePath]_vars

C12_Witness ==
    /\ lastOutcome = "empty"
    /\ pc = "sleep"
    /\ MAX_RETRIES = 1
    /\ writable
    /\ i = 1
    /\ results = <<FALSE>>
    /\ Count("call", 1) = 2
    /\ Count("backoff", 1) = 1
    /\ files = << >>

(***************************************************************************)
(* C13.  Running the driver a second time with the same items, on the      *)
(* output directory the first run left, raises no error, and when the      *)
(* service succeeded in both runs the set of file names after the second   *)
(* run equals the set after the first run: the existing files are          *)
(* overwritten and no further name appears.                                *)
(***************************************************************************)
C13_SecondRunOverwrites ==
    /\ second => (raised = "none" /\ pc # "aborted")
    /\ (second /\ Finished /\ firstRun.allOk /\ allOk) =>
          /\ DOMAIN files = DOMAIN firstRun.files
          /\ Len(results) = N
          /\ \A f \in DOMAIN files : files[f].run = "second"

C13_Witness ==
    /\ second /\ Finished /\ firstRun.allOk /\ allOk
    /\ N = 2
    /\ Cardinality(DOMAIN firstRun.files) = 2
    /\ \A f \in DOMAIN firstRun.files : firstRun.files[f].run = "first"
    /\ Cardinality(DOMAIN files) = 2

(***************************************************************************)
(* C14.  When two different labels of one run derive the same file name    *)
(* and both succeed, nothing is raised, both items are recorded as         *)
(* successes, and the one file holds the artifact of the item processed    *)
(* later.                                                                  *)
(***************************************************************************)
Collide(j, k) ==
    /\ j < k
    /\ apps[j] # apps[k]
    /\ FilenameOf[apps[j]] = FilenameOf[apps[k]]

SucceededWith(f) == {m \in 1..Len(results) : results[m] /\ FilenameOf[apps[m]] = f}

C14_LastWriteWins ==
    Finished =>
        \A j, k \in 1..N :
            (Collide(j, k) /\ results[j] /\ results[k]) =>
                LET f == FilenameOf[apps[k]]
                    last == CHOOSE m \in SucceededWith(f) : \A n \in SucceededWith(f) : n <= m
                IN  /\ raised = "none"
                    /\ f \in DOMAIN files
                    /\ last >= k
                    /\ files[f] = Artifact(last)

C14_Witness ==
    /\ Finished
    /\ ~second
    /\ N = 2
    /\ Collide(1, 2)
    /\ results = <<TRUE, TRUE>>
    /\ Cardinality(DOMAIN files) = 1
    /\ \A f \in DOMAIN files : files[f].item = 2

(***************************************************************************)
(* C15.  Whatever the service answers, the number of service calls for an  *)
(* item is at least 1 once the item has been reached and never more than   *)
(* MAX_RETRIES + 1, the attempt counter goes up only by 1 and only after   *)
(* a failed call, and no call is issued for an item after its first        *)
(* successful attempt.                                                     *)
(***************************************************************************)
Reached(k) == k < i \/ (k = i /\ pc \in {"await", "backoff", "sleep"})

C15_CallCounts ==
    /\ \A k \in 1..N :
          /\ Count("call", k) <= MAX_RETRIES + 1
          /\ Reached(k) => Count("call", k) >= 1
    /\ \A p \in DOMAIN trace :
          (trace[p].ev = "status" /\ trace[p].arg = 1) =>
              \A q \in Positions("call", trace[p].item) : q < p
    /\ \A p \in DOMAIN trace :
          trace[p].ev = "call" => trace[p].arg = CallsBefore(p, trace[p].item) + 1
    /\ (pc \in {"await", "backoff"}) => attempt = Count("call", i)

C15_AttemptStep ==
    /\ (attempt' # attempt) =>
          \/ pc = "backoff" /\ attempt' = attempt + 1 /\ lastOutcome # "none"
               /\ (lastOutcome = "ok" => ~writable)
          \/ pc = "for" /\ attempt' = 1
          \/ pc = "done" /\ second' /\ attempt' = 0
    /\ (Len(trace') > Len(trace) /\ trace'[Len(trace')].ev = "call") =>
          /\ Len(results) < i
          /\ trace'[Len(trace')] = Event("call", i, attempt)

C15_BoundedAttempts == []C15_CallCounts /\ [][C15_AttemptStep]_vars

C15_Witness ==
    /\ pc = "sleep"
    /\ MAX_RETRIES = 2
    /\ i = 2
    /\ attempt = 3
    /\ Count("call", 2) = 3
    /\ results = <<TRUE, TRUE>>
    /\ outcomes = <<"fail", "fail", "ok">>

(***************************************************************************)
(* rename_videos (src/background/rename.py).  The directory is drawn from  *)
(* the sets of at most MaxFiles names of a pool that holds videos, videos  *)
(* already named video_<n>.mp4, and entries that are no videos.            *)
(***************************************************************************)

\* The characters of the names, in the order of their code points: the
\* order in which sorted() compares strings.
CodePointOrder ==
    <<"-", ".", "0", "1", "2", "3", "4", "5", "6", "7", "8", "9">>
    \o UpperChars \o <<"_">> \o LowerChars
ord(c) == CHOOSE k \in DOMAIN CodePointOrder : CodePointOrder[k] = c

\* s < t for two strings.
RECURSIVE str_lt(_, _)
str_lt(s, t) ==
    IF t = << >> THEN FALSE
    ELSE IF s = << >> THEN TRUE
    ELSE IF Head(s) # Head(t) THEN ord(Head(s)) < ord(Head(t))
    ELSE str_lt(Tail(s), Tail(t))

\* sorted(files)
RECURSIVE sorted(_)
sorted(S) ==
    IF S = {} THEN << >>
    ELSE LET least == CHOOSE x \in S : \A y \in S \ {x} : str_lt(x, y)
         IN  <<least>> \o sorted(S \ {least})

\* A test for the suffix anywhere in the name ('.mp4' in filename).
endswith_Anywhere(s, suffix) ==
    \E k \in 1..Len(s) : k + Len(suffix) - 1 <= Len(s)
                         /\ SubSeq(s, k, k + Len(suffix) - 1) = suffix

\* str.endswith
endswith(s, suffix) ==
    /\ Len(s) >= Len(suffix)
    /\ SubSeq(s, Len(s) - Len(suffix) + 1, Len(s)) = suffix

DotMp4 == <<".", "m", "p", "4">>

\* str(n) for n >= 0
DecimalDigits == <<"0", "1", "2", "3", "4", "5", "6", "7", "8", "9">>
RECURSIVE str(_)
str(n) ==
    IF n < Len(DecimalDigits) THEN <<DecimalDigits[n + 1]>>
    ELSE str(n \div Len(DecimalDigits)) \o <<DecimalDigits[(n % Len(DecimalDigits)) + 1]>>

\* f'video_{counter}.mp4'
new_name(c) == <<"v", "i", "d", "e", "o", "_">> \o str(c) \o DotMp4

a_mp4 == <<"a", ".", "m", "p", "4">>
video_1_mp4 == <<"v", "i", "d", "e", "o", "_", "1", ".", "m", "p", "4">>
video_2_mp4 == <<"v", "i", "d", "e", "o", "_", "2", ".", "m", "p", "4">>
a_mp4_bak == <<"a", ".", "m", "p", "4", ".", "b", "a", "k">>
notes_txt == <<"n", "o", "t", "e", "s", ".", "t", "x", "t">>
rename_py == <<"r", "e", "n", "a", "m", "e", ".", "p", "y">>

NamePool == {a_mp4, video_1_mp4, video_2_mp4, a_mp4_bak, notes_txt, rename_py}

InitRename ==
    /\ DriverIdle
    /\ CleanIdle
    /\ SitemapIdle
    /\ \E S \in SUBSET NamePool :
          /\ Cardinality(S) <= MaxFiles
          /\ rdir = [n \in S |-> n]
    /\ rdir0 = rdir
    /\ posix \in BOOLEAN
    /\ listing = << >>
    /\ idx = 0
    /\ counter = 0
    /\ rpc = "start"
    /\ renames = << >>

\* rename_videos, lines 8-11: the directory is listed once, the counter is
\* set, and the loop starts over the sorted names.
rename_listdir ==
    /\ rpc = "start"
    /\ listing' = sorted(DOMAIN rdir)
    /\ idx' = 1
    /\ counter' = 1
    /\ rpc' = "loop"
    /\ UNCHANGED <<rdir, rdir0, posix, renames>>
    /\ UNCHANGED <<driverVars, cleanVars, sitemapVars>>

\* os.rename(src, dst) on directory d: the entry moves to the new name,
\* taking the place of whatever was there.
os_rename(d, src, dst) ==
    [n \in ((DOMAIN d) \ {src}) \cup {dst} |-> IF n = dst THEN d[src] ELSE d[n]]

\* os.rename raises: the source is gone, or the target exists on a platform
\* that does not replace it.
rename_raises(d, src, dst) ==
    \/ src \notin DOMAIN d
    \/ dst \in DOMAIN d /\ dst # src /\ ~posix

\* rename_videos, lines 11-19: one iteration of the loop.
rename_step ==
    /\ rpc = "loop"
    /\ idx <= Len(listing)
    /\ LET filename == listing[idx]
           dst == new_name(counter)
       IN  IF endswith(filename, DotMp4)
           THEN /\ renames' = Append(renames,
                                     [src |-> filename, dst |-> dst,
                                      srcExists |-> filename \in DOMAIN rdir,
                                      replaces |-> dst \in DOMAIN rdir /\ dst # filename])
                /\ IF rename_raises(rdir, filename, dst)
                   THEN /\ rpc' = "error"
                        /\ UNCHANGED <<rdir, idx, counter>>
                   ELSE /\ rdir' = os_rename(rdir, filename, dst)
                        /\ counter' = counter + 1
                        /\ idx' = idx + 1
                        /\ rpc' = rpc
           ELSE /\ idx' = idx + 1
                /\ UNCHANGED <<rdir, counter, rpc, renames>>
    /\ UNCHANGED <<rdir0, posix, listing>>
    /\ UNCHANGED <<driverVars, cleanVars, sitemapVars>>

\* rename_videos, line 11: the listing is exhausted and the function returns.
rename_return ==
    /\ rpc = "loop"
    /\ idx > Len(listing)
    /\ rpc' = "done"
    /\ UNCHANGED <<rdir, rdir0, posix, listing, idx, counter, renames>>
    /\ UNCHANGED <<driverVars, cleanVars, sitemapVars>>

NextRename ==
    \/ rename_listdir
    \/ rename_step
    \/ rename_return

SpecRename == InitRename /\ [][NextRename]_vars

(***************************************************************************)
(* C16.  rename_videos loses no video: whatever the names in the           *)
(* directory, names of the form video_<n>.mp4 included, afterwards the     *)
(* directory holds as many .mp4 files as before, named video_1.mp4 to      *)
(* video_k.mp4, each with the content of a different original .mp4 file,   *)
(* and no rename replaced an existing file or had a missing source.        *)
(***************************************************************************)
IsVideo(n) == Len(n) >= 4 /\ SubSeq(n, Len(n) - 3, Len(n)) = <<".", "m", "p", "4">>
VideosIn(d) == {n \in DOMAIN d : IsVideo(n)}
RenameOver == rpc \in {"done", "error"}

C16_NoVideoLost ==
    RenameOver =>
        LET k == Cardinality(VideosIn(rdir0))
        IN  /\ rpc = "done"
            /\ Cardinality(VideosIn(rdir)) = k
            /\ VideosIn(rdir) = {new_name(c) : c \in 1..k}
            /\ {rdir[n] : n \in VideosIn(rdir)} = VideosIn(rdir0)
            /\ \A p \in DOMAIN renames : renames[p].srcExists /\ ~renames[p].replaces

(***************************************************************************)
(* C17.  rename_videos leaves every entry whose name does not end in       *)
(* '.mp4' untouched: it is still there under its name with its content,    *)
(* and no rename has it as source or as destination.                       *)
(***************************************************************************)
C17_OthersUntouched ==
    \A n \in DOMAIN rdir0 :
        ~IsVideo(n) =>
            /\ n \in DOMAIN rdir
            /\ rdir[n] = rdir0[n]
            /\ \A p \in DOMAIN renames : renames[p].src # n /\ renames[p].dst # n

C17_Witness ==
    /\ rpc = "done"
    /\ DOMAIN rdir0 = {a_mp4, a_mp4_bak, notes_txt}
    /\ DOMAIN rdir = {video_1_mp4, a_mp4_bak, notes_txt}
    /\ Len(renames) = 1

(***************************************************************************)
(* generate_sitemap (src/sitemap.py).  The root directory is one of a few  *)
(* locations, the tree under it has at most MaxDirs subdirectories, two    *)
(* levels deep, and every directory holds one of a few sets of files.      *)
(***************************************************************************)

os_sep == "/"

\* os.path.join of the names of a path
RECURSIVE join(_)
join(names) ==
    IF names = << >> THEN << >>
    ELSE IF Len(names) = 1 THEN names[1]
    ELSE names[1] \o <<os_sep>> \o join(Tail(names))

\* The absolute path of the directory with these names.
abspath(names) == <<os_sep>> \o join(names)

\* needle in s
str_in(needle, s) ==
    \E k \in 1..(Len(s) - Len(needle) + 1) : SubSeq(s, k, k + Len(needle) - 1) = needle

private == <<"p", "r", "i", "v", "a", "t", "e">>
dist == <<"d", "i", "s", "t">>
unfinished == <<"u", "n", "f", "i", "n", "i", "s", "h", "e", "d">>

\* The test of line 9 on the path os.walk yields.
skipped(root) ==
    str_in(private, root) \/ str_in(dist, root) \/ str_in(unfinished, root)

DotHtml == <<".", "h", "t", "m", "l">>
index_html == <<"i", "n", "d", "e", "x", ".", "h", "t", "m", "l">>

\* os.path.relpath(root, directory) joined with the file name, for the
\* directory with relative names d.
rel_path(d, filename) == join(d \o <<filename>>)

\* url_path: a trailing index.html is cut off.
url_path(d, filename) ==
    LET p == rel_path(d, filename)
    IN  IF endswith(p, index_html) THEN SubSeq(p, 1, Len(p) - 10) ELSE p

\* str.replace(os.sep, '/')
replace_sep(s) == [k \in DOMAIN s |-> IF s[k] = os_sep THEN "/" ELSE s[k]]

\* urllib.parse.quote: letters, digits, '_.-~' and '/' stay, any other
\* character becomes its percent code.
QuoteSafe ==
    AllowedChars \cup {".", "~", "/"}
PercentCode == [c \in {" "} |-> <<"%", "2", "0">>]
RECURSIVE quote(_)
quote(s) ==
    IF s = << >> THEN << >>
    ELSE (IF Head(s) \in QuoteSafe THEN <<Head(s)>> ELSE PercentCode[Head(s)])
         \o quote(Tail(s))

\* str.rstrip(chars)
RECURSIVE rstrip_chars(_, _)
rstrip_chars(s, chars) ==
    IF s # << >> /\ s[Len(s)] \in chars
    THEN rstrip_chars(SubSeq(s, 1, Len(s) - 1), chars)
    ELSE s

\* loc_url
loc_url(d, filename) ==
    rstrip_chars(base_url, {"/"}) \o <<"/">> \o quote(replace_sep(url_path(d, filename)))

\* The <url> elements made for the directory with relative names d.
url_elements(d) ==
    IF skipped(abspath(directory \o d)) THEN {}
    ELSE {[dir |-> d, file |-> f, loc |-> loc_url(d, f)] :
              f \in {g \in tree[d] : endswith(g, DotHtml)}}

srv == <<"s", "r", "v">>
site == <<"s", "i", "t", "e">>
docs == <<"d", "o", "c", "s">>
distro == <<"d", "i", "s", "t", "r", "o">>
a_html == <<"a", ".", "h", "t", "m", "l">>
a_b_html == <<"a", " ", "b", ".", "h", "t", "m", "l">>
sitemap_xml_name == <<"s", "i", "t", "e", "m", "a", "p", ".", "x", "m", "l">>
g4f_dev == <<"h", "t", "t", "p", "s", ":", "/", "/", "g", "4", "f", ".", "d", "e", "v">>

RootDirs == {<<srv, site>>, <<srv, private>>}
BaseUrls == {g4f_dev, g4f_dev \o <<"/">>}
DirNames == {docs, dist, distro, unfinished}
ChildNames == {docs, distro}
SubDirs == {<<n>> : n \in DirNames} \cup {<<n, m>> : n \in DirNames, m \in ChildNames}
FileSets == {{}, {a_html, notes_txt}, {index_html, a_b_html}}

InitSitemap ==
    /\ DriverIdle
    /\ CleanIdle
    /\ RenameIdle
    /\ directory \in RootDirs
    /\ base_url \in BaseUrls
    /\ \E D \in SUBSET SubDirs :
          /\ Cardinality(D) <= MaxDirs
          /\ \A d \in D : Len(d) > 1 => SubSeq(d, 1, Len(d) - 1) \in D
          /\ tree \in [D \cup {<< >>} -> FileSets]
    /\ walked = {}
    /\ urlset = EmptyBag
    /\ spc = "walk"
    /\ sitemap_xml = EmptyBag

\* generate_sitemap, lines 8-28: os.walk yields one more directory, top
\* down, and the loop body runs for it.
sitemap_walk ==
    /\ spc = "walk"
    /\ \E d \in (DOMAIN tree) \ walked :
          /\ d # << >> => SubSeq(d, 1, Len(d) - 1) \in walked
          /\ walked' = walked \cup {d}
          /\ urlset' = urlset (+) SetToBag(url_elements(d))
    /\ UNCHANGED <<directory, base_url, tree, spc, sitemap_xml>>
    /\ UNCHANGED <<driverVars, cleanVars, renameVars>>

\* generate_sitemap, lines 31-33: the walk is over and sitemap.xml is
\* written into the root directory.
sitemap_write ==
    /\ spc = "walk"
    /\ walked = DOMAIN tree
    /\ sitemap_xml' = urlset
    /\ tree' = [tree EXCEPT ![<< >>] = @ \cup {sitemap_xml_name}]
    /\ spc' = "done"
    /\ UNCHANGED <<directory, base_url, walked, urlset>>
    /\ UNCHANGED <<driverVars, cleanVars, renameVars>>

NextSitemap ==
    \/ sitemap_walk
    \/ sitemap_write

SpecSitemap == InitSitemap /\ [][NextSitemap]_vars

(***************************************************************************)
(* C18.  generate_sitemap writes exactly one <url> entry for every file    *)
(* ending in '.html' under the given directory that is not in or beneath a *)
(* directory named private, dist or unfinished, and no entry for any other *)
(* file, whatever the tree and wherever the root directory is.             *)
(***************************************************************************)
ExcludedNames ==
    {<<"p", "r", "i", "v", "a", "t", "e">>, <<"d", "i", "s", "t">>,
     <<"u", "n", "f", "i", "n", "i", "s", "h", "e", "d">>}
IsHtml(f) == Len(f) >= 5 /\ SubSeq(f, Len(f) - 4, Len(f)) = <<".", "h", "t", "m", "l">>
\* The file is in or beneath a directory with one of the names, the
\* directories above the root included.
InExcludedDir(d) == \E k \in DOMAIN (directory \o d) : (directory \o d)[k] \in ExcludedNames
EntriesFor(d, f) ==
    LET es == {e \in BagToSet(sitemap_xml) : e.dir = d /\ e.file = f}
    IN  BagCardinality([e \in es |-> sitemap_xml[e]])

C18_OneUrlPerPublicHtml ==
    spc = "done" =>
        /\ \A d \in DOMAIN tree : \A f \in tree[d] :
              EntriesFor(d, f) = IF IsHtml(f) /\ ~InExcludedDir(d) THEN 1 ELSE 0
        /\ \A e \in BagToSet(sitemap_xml) : e.dir \in DOMAIN tree /\ e.file \in tree[e.dir]

====
